---- MODULE Spec2Model ----
(***************************************************************************)
(* Model of popcorn-python: the YTS mirror client (core/yts_api.py), the   *)
(* library matcher (core/library_scanner.py), the client-side filter       *)
(* pipeline of the movie grid (ui/movie_grid.py) and the pagination        *)
(* controller of the main window (ui/main_window.py).                      *)
(*                                                                         *)
(* Encodings.  Python's 0-based mirror index is kept 0-based; MIRRORS is a *)
(* TLA+ sequence, so mirror i is MIRRORS[i + 1].  A title is a sequence of *)
(* one-character strings.  None (a missing year) is NoYear.  A filter dict *)
(* is a function from keys to values; {} is the function with the empty    *)
(* domain, and filters.get(k, d) is Get(f, k, d).  current_filters holds   *)
(* the name of a dict of FilterDict.  A card is represented by the         *)
(* imdb_code of its movie.                                                 *)
(***************************************************************************)
EXTENDS Integers, Sequences, FiniteSets, TLC

VARIABLES
    current_mirror_idx,  \* YTSApi.current_mirror_idx
    BASE_URL,            \* YTSApi.BASE_URL
    last_call,           \* history: inputs and outcome of the last _try_request
    current_page,        \* MainWindow.current_page
    is_loading,          \* MainWindow.is_loading
    current_filters,     \* MainWindow.current_filters (a name of FilterDict)
    empty_pages_count,   \* MainWindow.empty_pages_count
    cards,               \* MovieGrid.cards (imdb codes, in grid order)
    empty_state,         \* message of the label made by MovieGrid.show_empty_state
    loaders,             \* MovieLoaderThread objects whose run() has not finished
    signals,             \* loader signals queued for the main thread
    timers,              \* pending QTimer.singleShot callbacks of check_needs_more
    capacity,            \* number of cards the viewport shows without a scrollbar
    browses,             \* history: number of filters_changed signals handled
    downloaded_codes,    \* MovieGrid.downloaded_codes
    hidden_codes,        \* MovieGrid.hidden_codes
    watched_codes,       \* MovieGrid.watched_codes
    watchlist_codes,     \* MovieGrid.watchlist_codes
    library_lookup,      \* MovieGrid.library_lookup
    hist                 \* history: the last page requested in the current
                         \* browse (0: none yet); whether the last step was
                         \* a load_more signal dropped by the guard; whether
                         \* the viewport needed more cards when the last
                         \* page was reconciled (TRUE again once the user
                         \* asks for a fetch)

vars == <<current_mirror_idx, BASE_URL, last_call, current_page, is_loading,
          current_filters, empty_pages_count, cards, empty_state, loaders,
          signals, timers, capacity, browses, downloaded_codes, hidden_codes,
          watched_codes, watchlist_codes, library_lookup, hist>>

apiVars == <<current_mirror_idx, BASE_URL>>
winVars == <<current_page, is_loading, current_filters, empty_pages_count,
             cards, empty_state, loaders, signals, timers, capacity, browses>>
markVars == <<downloaded_codes, hidden_codes, watched_codes, watchlist_codes,
              library_lookup>>

----------------------------------------------------------------------------
(* Bounds of the model *)

\* pages of the long catalog (query "x"); more than MaxEmptyPages
LongPages == 21
\* filters_changed signals handled in one behaviour
MaxBrowses == 2
\* check_needs_more timers pending at the same time
MaxTimers == 2
\* viewport sizes the user can give the window: a card count that fits
SmallCapacity == 1
LargeCapacity == 40

\* page indices from MaxPage on all lie beyond every catalog; the cursor
\* stops counting there (every such page is the same empty page)
MaxPage == LongPages + 2

(* Program constants *)

\* the literal 20 of "if self.empty_pages_count < 20"
MaxEmptyPages == 20
\* None, the year of a library entry whose file name has no year
NoYear == -1
\* the year Movie.from_dict gives a catalog item that has none
UnknownYear == 0

Range(s) == {s[i] : i \in DOMAIN s}

Get(f, k, d) == IF k \in DOMAIN f THEN f[k] ELSE d

----------------------------------------------------------------------------
(* core/yts_api.py : the mirror client *)

MIRRORS == <<"https://yts.lt/api/v2", "https://yts.mx/api/v2",
             "https://yts.rs/api/v2", "https://yts.torrentbay.to/api/v2">>

MirrorIdx == 0 .. (Len(MIRRORS) - 1)

\* What one mirror answers to one request:
\*   ok           2xx, a JSON object with status "ok" and a well-formed data
\*   transport    requests.RequestException (no connection, timeout)
\*   http_error   a 4xx/5xx status
\*   not_json     a body response.json() rejects (ValueError)
\*   status_error a JSON object whose status is not "ok"
\*   no_data      a JSON object with status "ok" and no "data" key
\*   not_object   a JSON value that is no object (a list, null, a string)
RespKinds == {"ok", "transport", "http_error", "not_json", "status_error",
              "no_data", "not_object"}

\* MIRRORS.index(mirror): the first 0-based position holding the url
IndexOf(url) == CHOOSE i \in MirrorIdx :
                    /\ MIRRORS[i + 1] = url
                    /\ \A j \in MirrorIdx : j < i => MIRRORS[j + 1] # url

\* the list comprehension of mirrors_to_try without its "if i != idx"
OthersFrom_all(i, idx) == [j \in 1 .. (Len(MIRRORS) - i) |-> i + j - 1]

\* mirrors_to_try, as 0-based indices
RECURSIVE OthersFrom(_, _)
OthersFrom(i, idx) ==
    IF i > Len(MIRRORS) - 1 THEN <<>>
    ELSE (IF i # idx THEN <<i>> ELSE <<>>) \o OthersFrom(i + 1, idx)

MirrorsToTry(idx) == <<idx>> \o OthersFrom(0, idx)

\* a loop that prefers a mirror as soon as it is attempted
RECURSIVE TryFrom_switching_first(_, _, _, _, _, _)
TryFrom_switching_first(order, pos, resp, idx, base, tried) ==
    IF pos > Len(order)
    THEN [result |-> "none", mirror |-> -1, body |-> "none",
          idx |-> idx, base |-> base, attempts |-> tried]
    ELSE LET m == order[pos]
             r == resp[m]
             att == Append(tried, m)
         IN  CASE r \in {"transport", "http_error", "not_json"} ->
                      TryFrom_switching_first(order, pos + 1, resp, m,
                                              MIRRORS[m + 1], att)
               [] r = "not_object" ->
                      \* data.get raises AttributeError, which is not caught
                      [result |-> "raise", mirror |-> m, body |-> r,
                       idx |-> idx, base |-> base, attempts |-> att]
               [] r = "status_error" ->
                      TryFrom_switching_first(order, pos + 1, resp, idx, base, att)
               [] OTHER ->
                      \* status "ok": data is never inspected here
                      [result |-> "data", mirror |-> m, body |-> r,
                       idx |-> IF MIRRORS[m + 1] # base
                                 THEN IndexOf(MIRRORS[m + 1]) ELSE idx,
                       base |-> IF MIRRORS[m + 1] # base
                                  THEN MIRRORS[m + 1] ELSE base,
                       attempts |-> att]

\* The for loop of _try_request from position pos of the attempt order.
\* result: "data" (return data), "none" (return None), "raise" (an
\* exception that is neither RequestException nor ValueError leaves the call)
RECURSIVE TryFrom(_, _, _, _, _, _)
TryFrom(order, pos, resp, idx, base, tried) ==
    IF pos > Len(order)
    THEN [result |-> "none", mirror |-> -1, body |-> "none",
          idx |-> idx, base |-> base, attempts |-> tried]
    ELSE LET m == order[pos]
             r == resp[m]
             att == Append(tried, m)
         IN  CASE r \in {"transport", "http_error", "not_json"} ->
                      \* except (RequestException, ValueError): continue
                      TryFrom(order, pos + 1, resp, idx, base, att)
               [] r = "not_object" ->
                      \* data.get raises AttributeError, which is not caught
                      [result |-> "raise", mirror |-> m, body |-> r,
                       idx |-> idx, base |-> base, attempts |-> att]
               [] r = "status_error" ->
                      TryFrom(order, pos + 1, resp, idx, base, att)
               [] OTHER ->
                      \* status "ok": data is never inspected here
                      [result |-> "data", mirror |-> m, body |-> r,
                       idx |-> IF MIRRORS[m + 1] # base
                                 THEN IndexOf(MIRRORS[m + 1]) ELSE idx,
                       base |-> IF MIRRORS[m + 1] # base
                                  THEN MIRRORS[m + 1] ELSE base,
                       attempts |-> att]

TryRequest(idx, base, resp) == TryFrom(MirrorsToTry(idx), 1, resp, idx, base, <<>>)

\* _find_working_mirror from mirror i on: the first mirror answering 200
\* with status "ok" and a "data" key becomes the preferred one.  A JSON value
\* that is no object makes data.get raise AttributeError out of __init__.
\* probed (history) counts the mirrors requested, warned is the print of
\* "Warning: No YTS mirrors reachable".
RECURSIVE FindWorkingMirror(_, _, _, _)
FindWorkingMirror(i, probe, idx, base) ==
    IF i > Len(MIRRORS) - 1
    THEN [idx |-> idx, base |-> base, found |-> FALSE, raised |-> FALSE,
          probed |-> i, warned |-> TRUE]
    ELSE IF probe[i] = "ok"
    THEN [idx |-> i, base |-> MIRRORS[i + 1], found |-> TRUE, raised |-> FALSE,
          probed |-> i + 1, warned |-> FALSE]
    ELSE IF probe[i] = "not_object"
    THEN [idx |-> idx, base |-> base, found |-> FALSE, raised |-> TRUE,
          probed |-> i + 1, warned |-> FALSE]
    ELSE FindWorkingMirror(i + 1, probe, idx, base)

\* a construction whose BASE_URL has no default
ApiInit_no_default(probe) == FindWorkingMirror(0, probe, 0, "")

\* YTSApi.__init__: current_mirror_idx = 0, BASE_URL is the class attribute
ApiInit(probe) == FindWorkingMirror(0, probe, 0, MIRRORS[1])

----------------------------------------------------------------------------
(* The remote catalog and the filter dicts of the model *)

Torrent(q, n) == [quality |-> q, seeds |-> n]

\* Movie.from_dict of the catalog's entries, by imdb_code.  Codes 1..4 are
\* the short catalog, code 5 is a movie no page of the model lists, and
\* code 100 + p is the movie of page p of the long catalog.
MovieOf(code) ==
    CASE code = 1 -> [imdb_code |-> 1, title |-> <<"A", "b">>, year |-> 2010,
                      runtime |-> 100, language |-> "en",
                      torrents |-> <<Torrent("720p", 5), Torrent("1080p", 50)>>]
      [] code = 2 -> [imdb_code |-> 2, title |-> <<"B">>, year |-> 2012,
                      runtime |-> 0, language |-> "en",
                      torrents |-> <<Torrent("1080p", 20)>>]
      [] code = 3 -> [imdb_code |-> 3, title |-> <<"a", " ", "a">>, year |-> 2015,
                      runtime |-> 90, language |-> "en", torrents |-> <<>>]
      [] code = 4 -> [imdb_code |-> 4, title |-> <<"B", "-", "a">>, year |-> 2016,
                      runtime |-> 95, language |-> "en",
                      torrents |-> <<Torrent("2160p", 7)>>]
      [] code = 5 -> [imdb_code |-> 5, title |-> <<"a", "B">>, year |-> 2011,
                      runtime |-> 110, language |-> "en",
                      torrents |-> <<Torrent("3D", 30)>>]
      [] OTHER -> [imdb_code |-> code, title |-> <<"b">>,
                   year |-> IF code = 101 THEN 1900 ELSE 2020,
                   runtime |-> 120, language |-> "en",
                   torrents |-> <<Torrent("720p", 3)>>]

\* The "movies" list a mirror serves for list_movies.json with these
\* parameters (one catalog per query term; limit, sort and genre are the
\* same in every request of the model)
ServerMovies(params) ==
    LET q == Get(params, "query_term", "")
        p == params.page
    IN  CASE q = "" -> (IF p = 1 THEN <<1, 2>> ELSE IF p = 2 THEN <<3, 4>> ELSE <<>>)
          [] q = "x" -> (IF p <= LongPages THEN <<100 + p>> ELSE <<>>)
          [] OTHER -> <<>>

\* FilterBar._emit_filters: the dict of the filters_changed signal
BarFilters(query, min_year, max_year) ==
    [genre |-> "All", sort_by |-> "download_count", sort_display |-> "Trending",
     order_by |-> "desc", query |-> query, minimum_rating |-> 0,
     hide_downloaded |-> TRUE, show_hidden |-> FALSE, hide_watched |-> FALSE,
     hide_watchlist |-> TRUE, show_watchlist_only |-> FALSE,
     min_year |-> min_year, max_year |-> max_year,
     min_runtime |-> 0, max_runtime |-> 500,
     quality_2160p |-> TRUE, quality_1080p |-> TRUE, quality_720p |-> TRUE,
     min_seeds |-> 0, language |-> "All"]

\* the dicts the user emits in the model: browses of the short and of the
\* empty catalog, and browses of the long one
ShortFilters == {"bar", "nothing"}
LongFilters == {"old", "narrow"}

\* "initial" is MainWindow.__init__'s current_filters = {}
FilterDict(name) ==
    CASE name = "initial" -> [k \in {} |-> TRUE]
      [] name = "bar" -> BarFilters("", 1900, 2026)
      [] name = "old" -> BarFilters("x", 1900, 1901)
      [] name = "narrow" -> BarFilters("x", 1950, 1951)
      [] OTHER -> BarFilters("zz", 1900, 2026)

----------------------------------------------------------------------------
(* core/library_scanner.py : normalize_title *)

LowerChar(c) == CASE c = "A" -> "a" [] c = "B" -> "b" [] OTHER -> c

\* \w of the regular expressions: letters, digits and the underscore
IsWordChar(c) == c \in {"a", "b", "A", "B", "0", "1", "_"}
\* \s
IsSpaceChar(c) == c \in {" ", "\t"}

RECURSIVE DropSpaces(_)
DropSpaces(s) == IF s # <<>> /\ IsSpaceChar(Head(s)) THEN DropSpaces(Tail(s)) ELSE s

\* re.sub(r'\s+', ' ', title)
RECURSIVE CollapseSpaces(_)
CollapseSpaces(s) ==
    IF s = <<>> THEN <<>>
    ELSE IF IsSpaceChar(Head(s)) THEN <<" ">> \o CollapseSpaces(DropSpaces(s))
    ELSE <<Head(s)>> \o CollapseSpaces(Tail(s))

\* str.strip() of a title whose whitespace runs are single spaces
Strip(s) ==
    LET a == DropSpaces(s)
    IN  IF a # <<>> /\ IsSpaceChar(a[Len(a)]) THEN SubSeq(a, 1, Len(a) - 1) ELSE a

normalize_title(title) ==
    LET lowered == [i \in DOMAIN title |-> LowerChar(title[i])]
        kept == SelectSeq(lowered, LAMBDA c : IsWordChar(c) \/ IsSpaceChar(c))
    IN  Strip(CollapseSpaces(kept))

\* a match on the normalized title alone
movie_exists_in_library_any_year(title, year, lookup_set) ==
    \E e \in lookup_set : e[1] = normalize_title(title)

(* core/library_scanner.py : movie_exists_in_library *)
movie_exists_in_library(title, year, lookup_set) ==
    LET normalized == normalize_title(title)
    IN  \/ <<normalized, year>> \in lookup_set
        \/ \E e \in lookup_set :
              /\ e[1] = normalized
              /\ (e[2] = NoYear \/ e[2] = year)

\* a grid matcher with the exact test only, without its loop
is_in_library_exact_only(movie, lookup) ==
    <<normalize_title(movie.title), movie.year>> \in lookup

(* ui/movie_grid.py : MovieGrid._is_in_library *)
is_in_library(movie, lookup) ==
    LET normalized == normalize_title(movie.title)
    IN  \/ <<normalized, movie.year>> \in lookup
        \/ \E e \in lookup :
              /\ e[1] = normalized
              /\ (e[2] = NoYear \/ e[2] = movie.year)

----------------------------------------------------------------------------
(* ui/movie_grid.py : the filter pipeline of MovieGrid.add_movies *)

MaxSeeds(torrents) ==
    CHOOSE n \in {torrents[i].seeds : i \in DOMAIN torrents} :
        \A i \in DOMAIN torrents : torrents[i].seeds <= n

\* lower() of the language strings of the model
LowerStr(s) == CASE s = "All" -> "all" [] s = "English" -> "english"
                 [] s = "EN" -> "en" [] OTHER -> s

\* The stages of the loop body, in the order of the code; each is TRUE iff
\* its "continue" is taken for an item that reaches it.

\* if is_hidden and not show_hidden
HiddenRejects(filters, is_hidden) ==
    is_hidden /\ ~Get(filters, "show_hidden", FALSE)

\* if is_watched and hide_watched
WatchedRejects(filters, is_watched) ==
    is_watched /\ Get(filters, "hide_watched", FALSE)

\* the watchlist logic with hide_watchlist tested before show_watchlist_only
WatchlistRejects_hide_first(filters, is_in_watchlist) ==
    IF Get(filters, "hide_watchlist", TRUE) /\ is_in_watchlist
    THEN TRUE
    ELSE Get(filters, "show_watchlist_only", FALSE) /\ ~is_in_watchlist

\* if show_watchlist_only: ... elif hide_watchlist and is_in_watchlist
WatchlistRejects(filters, is_in_watchlist) ==
    IF Get(filters, "show_watchlist_only", FALSE)
    THEN ~is_in_watchlist
    ELSE Get(filters, "hide_watchlist", TRUE) /\ is_in_watchlist

\* is_owned without the library match
is_owned_db_only(movie, downloaded, lookup) == movie.imdb_code \in downloaded

\* is_owned = in_downloaded_db or in_library
is_owned(movie, downloaded, lookup) ==
    \/ movie.imdb_code \in downloaded
    \/ is_in_library(movie, lookup)

\* if hide_downloaded and is_owned
OwnedRejects(filters, owned) ==
    Get(filters, "hide_downloaded", TRUE) /\ owned

\* if movie.year < min_year or movie.year > max_year
YearRejects(filters, movie) ==
    \/ movie.year < Get(filters, "min_year", 1900)
    \/ movie.year > Get(filters, "max_year", 2100)

\* the range test without "if movie.runtime > 0"
RuntimeRejects_unknown_too(filters, movie) ==
    \/ movie.runtime < Get(filters, "min_runtime", 0)
    \/ movie.runtime > Get(filters, "max_runtime", 500)

\* if movie.runtime > 0: if runtime < min_runtime or runtime > max_runtime
RuntimeRejects(filters, movie) ==
    /\ movie.runtime > 0
    /\ \/ movie.runtime < Get(filters, "min_runtime", 0)
       \/ movie.runtime > Get(filters, "max_runtime", 500)

\* if language_filter != "All": if language.lower() != filter.lower()
LanguageRejects(filters, movie) ==
    /\ Get(filters, "language", "All") # "All"
    /\ LowerStr(movie.language) # LowerStr(Get(filters, "language", "All"))

\* the quality stage without "quality_2160p or quality_1080p or quality_720p"
QualityRejects_unconditional(filters, torrents) ==
    /\ torrents # <<>>
    /\ ~(\/ Get(filters, "quality_2160p", TRUE)
            /\ "2160p" \in {torrents[i].quality : i \in DOMAIN torrents}
         \/ Get(filters, "quality_1080p", TRUE)
            /\ "1080p" \in {torrents[i].quality : i \in DOMAIN torrents}
         \/ Get(filters, "quality_720p", TRUE)
            /\ "720p" \in {torrents[i].quality : i \in DOMAIN torrents})

\* if movie.torrents: ... if (any flag) and not has_selected_quality
QualityRejects(filters, torrents) ==
    LET quality_2160p == Get(filters, "quality_2160p", TRUE)
        quality_1080p == Get(filters, "quality_1080p", TRUE)
        quality_720p == Get(filters, "quality_720p", TRUE)
        available_qualities == {torrents[i].quality : i \in DOMAIN torrents}
        has_selected_quality ==
            \/ quality_2160p /\ "2160p" \in available_qualities
            \/ quality_1080p /\ "1080p" \in available_qualities
            \/ quality_720p /\ "720p" \in available_qualities
    IN  /\ torrents # <<>>
        /\ (quality_2160p \/ quality_1080p \/ quality_720p)
        /\ ~has_selected_quality

\* the seeds stage looking at the first variant only
SeedsRejects_first_variant(filters, torrents) ==
    /\ Get(filters, "min_seeds", 0) > 0
    /\ torrents # <<>>
    /\ torrents[1].seeds < Get(filters, "min_seeds", 0)

\* if min_seeds > 0 and movie.torrents: if max(t.seeds ...) < min_seeds
SeedsRejects(filters, torrents) ==
    /\ Get(filters, "min_seeds", 0) > 0
    /\ torrents # <<>>
    /\ MaxSeeds(torrents) < Get(filters, "min_seeds", 0)

\* the stage whose "continue" ends the loop body for this movie, "none"
\* when the card is created
RejectedAt(movie, filters, hidden, watched, watchlist, downloaded, lookup) ==
    IF HiddenRejects(filters, movie.imdb_code \in hidden) THEN "hidden"
    ELSE IF WatchedRejects(filters, movie.imdb_code \in watched) THEN "watched"
    ELSE IF WatchlistRejects(filters, movie.imdb_code \in watchlist)
    THEN "watchlist"
    ELSE IF OwnedRejects(filters, is_owned(movie, downloaded, lookup))
    THEN "owned"
    ELSE IF YearRejects(filters, movie) THEN "year"
    ELSE IF RuntimeRejects(filters, movie) THEN "runtime"
    ELSE IF LanguageRejects(filters, movie) THEN "language"
    ELSE IF QualityRejects(filters, movie.torrents) THEN "quality"
    ELSE IF SeedsRejects(filters, movie.torrents) THEN "seeds"
    ELSE "none"

\* a loop body that never takes a "continue"
Passes_any(movie, filters, hidden, watched, watchlist, downloaded, lookup) ==
    TRUE

\* the body of the for loop up to the creation of the card: TRUE iff no
\* "continue" is taken
Passes(movie, filters, hidden, watched, watchlist, downloaded, lookup) ==
    RejectedAt(movie, filters, hidden, watched, watchlist, downloaded,
               lookup) = "none"

\* add_movies with a card per movie at most once in a call
add_movies_once(before, movies, filters) ==
    LET sel == SelectSeq(movies, LAMBDA code :
                  Passes(MovieOf(code), filters, hidden_codes, watched_codes,
                         watchlist_codes, downloaded_codes, library_lookup))
    IN  before \o SubSeq(sel, 1, IF Len(sel) > 1 THEN 1 ELSE Len(sel))

\* MovieGrid.add_movies: the cards after the call (a card per passing movie,
\* appended in page order)
add_movies(before, movies, filters) ==
    before \o SelectSeq(movies, LAMBDA code :
                  Passes(MovieOf(code), filters, hidden_codes, watched_codes,
                         watchlist_codes, downloaded_codes, library_lookup))

----------------------------------------------------------------------------
(* core/yts_api.py : YTSApi.list_movies *)

\* the request parameters: genre only when it is set and not "all",
\* query_term only when the query is not empty ("" also stands for None)
ListParams(page, genre, query) ==
    LET base == [k \in {"page"} |-> page]
        g == IF genre # "" /\ LowerStr(genre) # "all"
               THEN [k \in {"genre"} |-> LowerStr(genre)] ELSE [k \in {} |-> ""]
        q == IF query # "" THEN [k \in {"query_term"} |-> query] ELSE [k \in {} |-> ""]
    IN  [k \in {"page"} \cup DOMAIN g \cup DOMAIN q |->
            IF k = "page" THEN page ELSE IF k = "genre" THEN g[k] ELSE q[k]]

\* The value of list_movies given the outcome tr of its _try_request:
\* raised, or the movies list it returns (the count is display only)
list_movies(page, genre, query, tr) ==
    IF tr.result = "raise" THEN [raised |-> TRUE, movies |-> <<>>]
    ELSE IF tr.result = "none" THEN [raised |-> FALSE, movies |-> <<>>]
    ELSE IF tr.body = "no_data" THEN [raised |-> FALSE, movies |-> <<>>]
    ELSE [raised |-> FALSE, movies |-> ServerMovies(ListParams(page, genre, query))]

----------------------------------------------------------------------------
(* ui/main_window.py : MovieLoaderThread and MainWindow *)

\* current_page += 1 (page indices from MaxPage on are one and the same)
NextPage(p) == IF p < MaxPage THEN p + 1 ELSE p

\* A MovieLoaderThread as _load_movies and _load_more_movies set it up;
\* handler is the slot its movies_loaded signal is connected to,
\* browse (history) the number of browses started when it was created
NewLoader(page, name, handler, n) ==
    [page |-> page,
     genre |-> Get(FilterDict(name), "genre", ""),
     sort_by |-> Get(FilterDict(name), "sort_by", "download_count"),
     order_by |-> Get(FilterDict(name), "order_by", "desc"),
     query |-> Get(FilterDict(name), "query", ""),
     minimum_rating |-> Get(FilterDict(name), "minimum_rating", 0),
     handler |-> handler,
     browse |-> n]

\* a scrollbar that never has a range
ScrollbarMaximumIsZero_always == TRUE

\* scrollbar.maximum() == 0: the content fits in the viewport
ScrollbarMaximumIsZero == Len(cards) <= capacity

\* MainWindow._load_movies, called when the page is page, the filters are
\* name and n browses have been started
load_movies(page, name, n) ==
    IF is_loading
    THEN UNCHANGED <<is_loading, loaders>>
    ELSE /\ is_loading' = TRUE
         /\ loaders' = Append(loaders, NewLoader(page, name, "_on_movies_loaded", n))

\* _load_more_movies without its "if self.is_loading: return"
load_more_movies_unguarded ==
    /\ current_page' = NextPage(current_page)
    /\ is_loading' = TRUE
    /\ loaders' = Append(loaders,
           NewLoader(NextPage(current_page), current_filters,
                     "_on_more_movies_loaded", browses))

\* _load_more_movies whose guard skips the fetch but not the cursor
load_more_movies_advancing ==
    IF is_loading
    THEN /\ current_page' = NextPage(current_page)
         /\ UNCHANGED <<is_loading, loaders>>
    ELSE /\ current_page' = NextPage(current_page)
         /\ is_loading' = TRUE
         /\ loaders' = Append(loaders,
                NewLoader(NextPage(current_page), current_filters,
                          "_on_more_movies_loaded", browses))

\* MainWindow._load_more_movies
load_more_movies ==
    IF is_loading
    THEN UNCHANGED <<current_page, is_loading, loaders>>
    ELSE /\ current_page' = NextPage(current_page)
         /\ is_loading' = TRUE
         /\ loaders' = Append(loaders,
                NewLoader(NextPage(current_page), current_filters,
                          "_on_more_movies_loaded", browses))

\* check_needs_more that starts no timer
check_needs_more_skipped == timers' = timers

\* MovieGrid.check_needs_more: one more deferred _do_check_needs_more
check_needs_more == timers' = timers + 1

\* the history after a step: req is the last page requested in the browse
Recorded(req, drop) ==
    hist' = [requested |-> req, dropped |-> drop, needed |-> hist.needed]

\* the history after a fetch the user asked for
RecordedIntent(req, drop) ==
    hist' = [requested |-> req, dropped |-> drop, needed |-> TRUE]

\* the history after the reconciliation of a page
RecordedPage ==
    hist' = [requested |-> hist.requested, dropped |-> FALSE,
             needed |-> Len(cards') <= capacity]

\* MainWindow._on_filters_changed
FiltersChanged(name) ==
    /\ browses < MaxBrowses
    /\ browses' = browses + 1
    /\ current_filters' = name
    /\ current_page' = 1
    /\ empty_pages_count' = 0
    /\ load_movies(1, name, browses + 1)
    /\ UNCHANGED <<cards, empty_state, signals, timers, capacity>>
    /\ UNCHANGED <<apiVars, markVars, last_call>>
    /\ RecordedIntent(IF is_loading THEN 0 ELSE 1, FALSE)

\* MovieGrid._check_scroll on a valueChanged near the bottom of a scrollbar
\* that has a range: load_more is emitted
Scroll ==
    /\ ~ScrollbarMaximumIsZero
    /\ load_more_movies
    /\ UNCHANGED <<current_filters, empty_pages_count, cards, empty_state,
                   signals, timers, capacity, browses>>
    /\ UNCHANGED <<apiVars, markVars, last_call>>
    /\ RecordedIntent(IF is_loading THEN hist.requested
                                    ELSE NextPage(current_page),
                      is_loading)

\* the user resizes the window
Resize(c) ==
    /\ c # capacity
    /\ capacity' = c
    /\ UNCHANGED <<current_page, is_loading, current_filters, empty_pages_count,
                   cards, empty_state, loaders, signals, timers, browses>>
    /\ UNCHANGED <<apiVars, markVars, last_call>>
    /\ Recorded(hist.requested, FALSE)

\* a timer of check_needs_more fires: MovieGrid._do_check_needs_more
TimerFires ==
    /\ timers > 0
    /\ timers' = timers - 1
    /\ IF ScrollbarMaximumIsZero
       THEN load_more_movies
       ELSE UNCHANGED <<current_page, is_loading, loaders>>
    /\ UNCHANGED <<current_filters, empty_pages_count, cards, empty_state,
                   signals, capacity, browses>>
    /\ UNCHANGED <<apiVars, markVars, last_call>>
    /\ Recorded(IF ScrollbarMaximumIsZero /\ ~is_loading
                  THEN NextPage(current_page) ELSE hist.requested,
                ScrollbarMaximumIsZero /\ is_loading)

\* what the mirrors answer to a loader's request, in the window's model
LoaderResponses ==
    {[i \in MirrorIdx |-> k] : k \in {"ok", "transport", "no_data", "not_object"}}
    \cup {[i \in MirrorIdx |-> IF i = 1 THEN "ok" ELSE "http_error"]}

\* a run that clears is_loading itself, from the loader thread
LoaderRun_clears_flag(i, resp) ==
    LET ld == loaders[i]
        tr == TryRequest(current_mirror_idx, BASE_URL, resp)
        lm == list_movies(ld.page, ld.genre, ld.query, tr)
    IN  /\ current_mirror_idx' = tr.idx
        /\ BASE_URL' = tr.base
        /\ loaders' = [j \in 1 .. (Len(loaders) - 1) |->
                          IF j < i THEN loaders[j] ELSE loaders[j + 1]]
        /\ signals' = Append(signals,
              [signal |-> IF lm.raised THEN "error_occurred" ELSE "movies_loaded",
               movies |-> lm.movies,
               handler |-> ld.handler,
               browse |-> ld.browse,
               outcome |-> IF tr.result = "data" THEN tr.body ELSE tr.result])
        /\ is_loading' = FALSE
        /\ UNCHANGED <<current_page, current_filters,
                       empty_pages_count, cards, empty_state, timers, capacity,
                       browses>>
        /\ UNCHANGED <<markVars, last_call>>
        /\ Recorded(hist.requested, FALSE)

\* MovieLoaderThread.run of the i-th running loader, the mirrors answering
\* resp: list_movies, then movies_loaded or error_occurred is emitted
\* (queued to the main thread).  outcome (history) is what _try_request did.
LoaderRun(i, resp) ==
    LET ld == loaders[i]
        tr == TryRequest(current_mirror_idx, BASE_URL, resp)
        lm == list_movies(ld.page, ld.genre, ld.query, tr)
    IN  /\ current_mirror_idx' = tr.idx
        /\ BASE_URL' = tr.base
        /\ loaders' = [j \in 1 .. (Len(loaders) - 1) |->
                          IF j < i THEN loaders[j] ELSE loaders[j + 1]]
        /\ signals' = Append(signals,
              [signal |-> IF lm.raised THEN "error_occurred" ELSE "movies_loaded",
               movies |-> lm.movies,
               handler |-> ld.handler,
               browse |-> ld.browse,
               outcome |-> IF tr.result = "data" THEN tr.body ELSE tr.result])
        /\ UNCHANGED <<current_page, is_loading, current_filters,
                       empty_pages_count, cards, empty_state, timers, capacity,
                       browses>>
        /\ UNCHANGED <<markVars, last_call>>
        /\ Recorded(hist.requested, FALSE)

\* MainWindow._on_movies_loaded, on the oldest queued signal
OnMoviesLoaded ==
    /\ signals # <<>>
    /\ Head(signals).signal = "movies_loaded"
    /\ Head(signals).handler = "_on_movies_loaded"
    /\ LET movies == Head(signals).movies
           after == add_movies(<<>>, movies, FilterDict(current_filters))
       IN  /\ signals' = Tail(signals)
           /\ is_loading' = FALSE
           /\ IF movies = <<>>
              THEN /\ empty_pages_count' = 0
                   /\ cards' = <<>>
                   /\ empty_state' = "No movies found"
                   /\ UNCHANGED timers
              ELSE IF Len(after) = 0
              THEN /\ empty_pages_count' = 1
                   /\ cards' = <<>>
                   /\ IF 1 < MaxEmptyPages
                      THEN check_needs_more /\ UNCHANGED empty_state
                      ELSE empty_state' = "All movies filtered" /\ UNCHANGED timers
              ELSE /\ empty_pages_count' = 0
                   /\ cards' = after
                   /\ check_needs_more
                   /\ UNCHANGED empty_state
    /\ timers' <= MaxTimers
    /\ UNCHANGED <<current_page, current_filters, loaders, capacity, browses>>
    /\ UNCHANGED <<apiVars, markVars, last_call>>
    /\ RecordedPage

\* the counter update without its "and movies"
EmptyPagesAfter_any_page(count, cards_before, cards_after, movies) ==
    IF cards_after = cards_before THEN count + 1 ELSE 0

\* if cards_after == cards_before and movies: += 1, else: = 0
EmptyPagesAfter(count, cards_before, cards_after, movies) ==
    IF cards_after = cards_before /\ movies # <<>> THEN count + 1 ELSE 0

\* MainWindow._on_more_movies_loaded, on the oldest queued signal
OnMoreMoviesLoaded ==
    /\ signals # <<>>
    /\ Head(signals).signal = "movies_loaded"
    /\ Head(signals).handler = "_on_more_movies_loaded"
    /\ LET movies == Head(signals).movies
           cards_before == Len(cards)
           after == add_movies(cards, movies, FilterDict(current_filters))
           cards_after == Len(after)
           count == EmptyPagesAfter(empty_pages_count, cards_before,
                                    cards_after, movies)
       IN  /\ signals' = Tail(signals)
           /\ is_loading' = FALSE
           /\ empty_pages_count' = count
           /\ IF count < MaxEmptyPages
              THEN /\ check_needs_more
                   /\ cards' = after
                   /\ UNCHANGED empty_state
              ELSE IF cards_after = 0
              THEN /\ cards' = <<>>
                   /\ empty_state' = "All movies filtered"
                   /\ UNCHANGED timers
              ELSE /\ cards' = after
                   /\ UNCHANGED <<empty_state, timers>>
    /\ timers' <= MaxTimers
    /\ UNCHANGED <<current_page, current_filters, loaders, capacity, browses>>
    /\ UNCHANGED <<apiVars, markVars, last_call>>
    /\ RecordedPage

\* an error handler that leaves is_loading set
OnLoadError_keeps_loading ==
    /\ signals # <<>>
    /\ Head(signals).signal = "error_occurred"
    /\ signals' = Tail(signals)
    /\ UNCHANGED is_loading
    /\ cards' = <<>>
    /\ empty_state' = "Failed to load movies"
    /\ UNCHANGED <<current_page, current_filters, empty_pages_count, loaders,
                   timers, capacity, browses>>
    /\ UNCHANGED <<apiVars, markVars, last_call>>
    /\ Recorded(hist.requested, FALSE)

\* MainWindow._on_load_error, on the oldest queued signal
OnLoadError ==
    /\ signals # <<>>
    /\ Head(signals).signal = "error_occurred"
    /\ signals' = Tail(signals)
    /\ is_loading' = FALSE
    /\ cards' = <<>>
    /\ empty_state' = "Failed to load movies"
    /\ UNCHANGED <<current_page, current_filters, empty_pages_count, loaders,
                   timers, capacity, browses>>
    /\ UNCHANGED <<apiVars, markVars, last_call>>
    /\ Recorded(hist.requested, FALSE)

\* The state when MainWindow.__init__ returns: YTSApi() has probed the
\* mirrors (a probe that raises ends the program before any window exists)
\* and _load_movies() has started the first loader.
Init ==
    /\ \E probe \in [MirrorIdx -> RespKinds] :
          /\ ~ApiInit(probe).raised
          /\ current_mirror_idx = ApiInit(probe).idx
          /\ BASE_URL = ApiInit(probe).base
    /\ last_call = [result |-> "no call"]
    /\ current_page = 1
    /\ is_loading = TRUE
    /\ current_filters = "initial"
    /\ empty_pages_count = 0
    /\ cards = <<>>
    /\ empty_state = ""
    /\ loaders = <<NewLoader(1, "initial", "_on_movies_loaded", 0)>>
    /\ signals = <<>>
    /\ timers = 0
    /\ capacity \in {SmallCapacity, LargeCapacity}
    /\ browses = 0
    /\ hist = [requested |-> 1, dropped |-> FALSE, needed |-> FALSE]
    /\ downloaded_codes = {2}
    /\ hidden_codes = {}
    /\ watched_codes = {}
    /\ watchlist_codes = {}
    /\ library_lookup = {<<(<<"b", "a">>), NoYear>>}

Next ==
    \/ \E name \in ShortFilters : FiltersChanged(name)
    \/ Scroll
    \/ \E c \in {SmallCapacity, LargeCapacity} : Resize(c)
    \/ TimerFires
    \/ \E i \in DOMAIN loaders : \E resp \in LoaderResponses : LoaderRun(i, resp)
    \/ OnMoviesLoaded
    \/ OnMoreMoviesLoaded
    \/ OnLoadError

Spec == Init /\ [][Next]_vars

----------------------------------------------------------------------------
(* The long catalog: browses deep enough to meet the ceiling of             *)
(* MaxEmptyPages unproductive pages, every mirror answering.                *)

AllMirrorsOk == [i \in MirrorIdx |-> "ok"]

NextDeep ==
    \/ \E name \in LongFilters : FiltersChanged(name)
    \/ Scroll
    \/ TimerFires
    \/ \E i \in DOMAIN loaders : LoaderRun(i, AllMirrorsOk)
    \/ OnMoviesLoaded
    \/ OnMoreMoviesLoaded

SpecDeep == Init /\ [][NextDeep]_vars

----------------------------------------------------------------------------
(* The autonomous loop alone: no user intent, a viewport that is never      *)
(* filled.  The loader thread is scheduled, queued signals are delivered    *)
(* and timers fire: the Qt event loop and the OS leave none of them waiting *)
(* forever.                                                                 *)

InitAuto == Init /\ capacity = LargeCapacity

NextAuto ==
    \/ TimerFires
    \/ \E i \in DOMAIN loaders : \E resp \in LoaderResponses : LoaderRun(i, resp)
    \/ OnMoviesLoaded
    \/ OnMoreMoviesLoaded
    \/ OnLoadError

SpecAuto == InitAuto /\ [][NextAuto]_vars /\ WF_vars(NextAuto)

----------------------------------------------------------------------------
(* The mirror client alone: calls of _try_request on every combination of   *)
(* answers of the four mirrors.                                             *)

\* YTSApi._try_request, the mirrors answering resp; last_call records the
\* call (a call that raises changes no state)
TryRequestCall(resp) ==
    LET tr == TryRequest(current_mirror_idx, BASE_URL, resp)
    IN  /\ current_mirror_idx' = tr.idx
        /\ BASE_URL' = tr.base
        /\ last_call' = [result |-> tr.result, mirror |-> tr.mirror,
                         body |-> tr.body, attempts |-> tr.attempts,
                         resp |-> resp, idx_before |-> current_mirror_idx,
                         base_before |-> BASE_URL]
        /\ UNCHANGED <<winVars, markVars, hist>>

\* one answer of each kind of outcome of the loop body: success, an
\* exception the loop catches, a status that is not "ok", a body without
\* "data", a JSON value that is no object
ApiKinds == {"ok", "transport", "status_error", "no_data", "not_object"}

NextApi == \E resp \in [MirrorIdx -> ApiKinds] : TryRequestCall(resp)

SpecApi == InitAuto /\ [][NextApi]_vars

----------------------------------------------------------------------------
(* The construction of the mirror client, on every combination of answers  *)
(* to the probe, followed by calls of _try_request.                        *)

\* The state when YTSApi() has returned or raised; last_call records the
\* probe.  No window exists when the constructor raised.
InitProbe ==
    /\ \E probe \in [MirrorIdx -> RespKinds] :
          LET r == ApiInit(probe)
          IN  /\ current_mirror_idx = r.idx
              /\ BASE_URL = r.base
              /\ last_call = [result |-> IF r.raised THEN "construction raised"
                                                     ELSE "constructed",
                              probe |-> probe, found |-> r.found,
                              probed |-> r.probed, warned |-> r.warned]
              /\ is_loading = ~r.raised
              /\ loaders = IF r.raised THEN <<>>
                           ELSE <<NewLoader(1, "initial", "_on_movies_loaded", 0)>>
    /\ current_page = 1
    /\ current_filters = "initial"
    /\ empty_pages_count = 0
    /\ cards = <<>>
    /\ empty_state = ""
    /\ signals = <<>>
    /\ timers = 0
    /\ capacity = LargeCapacity
    /\ browses = 0
    /\ hist = [requested |-> IF is_loading THEN 1 ELSE 0, dropped |-> FALSE,
               needed |-> FALSE]
    /\ downloaded_codes = {2}
    /\ hidden_codes = {}
    /\ watched_codes = {}
    /\ watchlist_codes = {}
    /\ library_lookup = {<<(<<"b", "a">>), NoYear>>}

\* a call on the constructed client
NextProbe ==
    /\ last_call.result # "construction raised"
    /\ \E resp \in LoaderResponses : TryRequestCall(resp)

SpecProbe == InitProbe /\ [][NextProbe]_vars

----------------------------------------------------------------------------
(* The movie grid alone: MovieGrid.set_movies on pages of one movie, listed *)
(* once or twice, under the filter dicts the filter bar can emit and the    *)
(* membership sets the database can hold.                                   *)

GridCodes == {1, 2, 3, 4, 5}

\* pages of one raw item, and pages listing the same item twice
GridPages == {<<c>> : c \in GridCodes} \cup {<<c, c>> : c \in GridCodes}

\* the seeds slider: off, and thresholds between and above the seed counts
\* of the catalog
SeedsValues == {0, 10, 60}

\* FilterBar._emit_filters with the check boxes and the seeds slider set
GridConfig(hd, swo, hw, q2160, q1080, q720, ms) ==
    [BarFilters("", 1900, 2026) EXCEPT
        !.hide_downloaded = hd, !.show_watchlist_only = swo,
        !.hide_watchlist = hw, !.quality_2160p = q2160,
        !.quality_1080p = q1080, !.quality_720p = q720, !.min_seeds = ms]

\* every setting of the ownership and watchlist boxes, and every setting of
\* the quality boxes and the seeds slider
GridFilters ==
    {GridConfig(hd, swo, hw, TRUE, TRUE, TRUE, 0) :
        hd \in BOOLEAN, swo \in BOOLEAN, hw \in BOOLEAN}
    \cup {GridConfig(FALSE, FALSE, FALSE, qs[1], qs[2], qs[3], qs[4]) :
        qs \in BOOLEAN \X BOOLEAN \X BOOLEAN \X SeedsValues}

\* A window at rest whose grid was handed the sets of the database
InitGrid ==
    /\ current_mirror_idx = 0
    /\ BASE_URL = MIRRORS[1]
    /\ last_call = [result |-> "no call"]
    /\ current_page = 1
    /\ is_loading = FALSE
    /\ current_filters = "initial"
    /\ empty_pages_count = 0
    /\ cards = <<>>
    /\ empty_state = ""
    /\ loaders = <<>>
    /\ signals = <<>>
    /\ timers = 0
    /\ capacity = LargeCapacity
    /\ browses = 0
    /\ hist = [requested |-> 0, dropped |-> FALSE, needed |-> FALSE]
    /\ downloaded_codes \in {{}, {2}}
    /\ hidden_codes = {}
    /\ watched_codes = {}
    /\ watchlist_codes \in {{}, {1, 4}}
    /\ library_lookup \in {{}, {<<(<<"b", "a">>), NoYear>>,
                                <<(<<"a", "b">>), 2010>>}}

\* MovieGrid.set_movies(movies, filters): clear, then add_movies.  last_call
\* records the call and the stage that ended the loop body for the item.
SetMovies(movies, filters) ==
    /\ cards' = add_movies(<<>>, movies, filters)
    /\ last_call' = [result |-> "set_movies", movies |-> movies,
                     filters |-> filters,
                     stage |-> RejectedAt(MovieOf(movies[1]), filters,
                                   hidden_codes, watched_codes, watchlist_codes,
                                   downloaded_codes, library_lookup)]
    /\ UNCHANGED <<current_page, is_loading, current_filters, empty_pages_count,
                   empty_state, loaders, signals, timers, capacity, browses>>
    /\ UNCHANGED <<apiVars, markVars, hist>>

NextGrid == \E movies \in GridPages : \E f \in GridFilters : SetMovies(movies, f)

SpecGrid == InitGrid /\ [][NextGrid]_vars

----------------------------------------------------------------------------
(* The library matcher alone: both implementations of the match, on the     *)
(* titles and years of catalog items and the lookup sets a scan can build.  *)

\* entries of one lookup set
MaxEntries == 2

\* titles of catalog items: mixed case, punctuation, inner and outer spaces
MatchTitles == {<<"A", "b">>, <<"B", "-", "a">>, <<"a", " ", "b">>,
                <<" ", "a", "b">>}

\* years of catalog items
MatchYears == {UnknownYear, 2010, 2011}

\* (normalized_title, year) tuples of build_lookup_set
LibraryEntries == {<<t, y>> : t \in {<<"a", "b">>, <<"b", "a">>},
                              y \in {NoYear, 2010, 2011}}

InitMatch ==
    /\ current_mirror_idx = 0
    /\ BASE_URL = MIRRORS[1]
    /\ last_call = [result |-> "no call"]
    /\ current_page = 1
    /\ is_loading = FALSE
    /\ current_filters = "initial"
    /\ empty_pages_count = 0
    /\ cards = <<>>
    /\ empty_state = ""
    /\ loaders = <<>>
    /\ signals = <<>>
    /\ timers = 0
    /\ capacity = LargeCapacity
    /\ browses = 0
    /\ hist = [requested |-> 0, dropped |-> FALSE, needed |-> FALSE]
    /\ downloaded_codes = {}
    /\ hidden_codes = {}
    /\ watched_codes = {}
    /\ watchlist_codes = {}
    /\ library_lookup \in {l \in SUBSET LibraryEntries : Cardinality(l) <= MaxEntries}

\* movie_exists_in_library(title, year, lookup) and
\* MovieGrid._is_in_library(movie) on the same item; last_call records both
MatchCall(title, year) ==
    /\ last_call' = [result |-> "match", title |-> title, year |-> year,
                     exists |-> movie_exists_in_library(title, year,
                                                        library_lookup),
                     in_library |-> is_in_library(
                         [title |-> title, year |-> year], library_lookup)]
    /\ UNCHANGED <<winVars, apiVars, markVars, hist>>

NextMatch == \E title \in MatchTitles : \E year \in MatchYears :
                 MatchCall(title, year)

SpecMatch == InitMatch /\ [][NextMatch]_vars

----------------------------------------------------------------------------
(* core/yts_api.py : Movie.get_magnet, on every list of variants            *)

\* variants of one movie
MaxVariants == 3

\* get_magnet returns None (no variant has hash 0, no movie an empty title)
NoMagnet == [xt |-> 0, dn |-> <<>>]

\* the magnet link of a variant: its hash and the movie's title (the
\* trackers are the same in every link)
MagnetOf(torrent, title) == [xt |-> torrent.hash, dn |-> title]

\* get_magnet taking the last variant of the quality
get_magnet_last_match(movie, quality) ==
    LET t == movie.torrents
        hits == {i \in DOMAIN t : t[i].quality = quality}
    IN  IF hits # {}
        THEN MagnetOf(t[CHOOSE i \in hits : \A j \in hits : j <= i], movie.title)
        ELSE IF t # <<>> THEN MagnetOf(t[1], movie.title)
        ELSE NoMagnet

\* Movie.get_magnet: the first variant of the quality, else the first
\* variant, else None
get_magnet(movie, quality) ==
    LET t == movie.torrents
        hits == {i \in DOMAIN t : t[i].quality = quality}
    IN  IF hits # {}
        THEN MagnetOf(t[CHOOSE i \in hits : \A j \in hits : i <= j], movie.title)
        ELSE IF t # <<>> THEN MagnetOf(t[1], movie.title)
        ELSE NoMagnet

\* quality labels of variants, and the qualities a caller asks for
VariantQualities == {"720p", "1080p", "3D"}
AskedQualities == {"720p", "1080p", "2160p"}

\* movies with up to MaxVariants variants; the hash of a variant is its
\* position in the list, so that no two variants of a movie share a hash
MagnetMovies ==
    {[title |-> <<"A", "b">>,
      torrents |-> [i \in 1 .. n |-> [quality |-> qs[i], hash |-> i]]] :
        n \in 0 .. MaxVariants, qs \in [1 .. MaxVariants -> VariantQualities]}

\* movie.get_magnet(quality); last_call records the call
GetMagnetCall(movie, quality) ==
    /\ last_call' = [result |-> "get_magnet", torrents |-> movie.torrents,
                     quality |-> quality,
                     magnet |-> get_magnet(movie, quality)]
    /\ UNCHANGED <<winVars, apiVars, markVars, hist>>

NextMagnet == \E movie \in MagnetMovies : \E quality \in AskedQualities :
                  GetMagnetCall(movie, quality)

SpecMagnet == InitGrid /\ [][NextMagnet]_vars

----------------------------------------------------------------------------
(* Claims *)

\* a queued loader signal is delivered to its slot in this step
Delivered == signals # <<>> /\ signals' = Tail(signals)

\* C1: the result of a fetch that was in flight when a filter change
\* arrived is discarded when it arrives: it adds nothing to the visible
\* set and does not change the empty-page counter.
C1_StaleResultDiscarded ==
    [][(Delivered /\ Head(signals).browse # browses)
         => (cards' = cards /\ empty_pages_count' = empty_pages_count)]_vars

\* C2: at most one page fetch is outstanding (a running loader or its
\* undelivered signal), and is_loading is true for as long as one is.
C2_OneFetchOutstanding ==
    /\ Len(loaders) + Len(signals) <= 1
    /\ (Len(loaders) + Len(signals) = 1 => is_loading)

\* a filter change arrived while a fetch was in flight, and that fetch is
\* still the only one
C2_Witness ==
    /\ is_loading
    /\ Len(loaders) = 1
    /\ loaders[1].browse < browses
    /\ timers > 0

\* C3: a filter change sets the page cursor to 1 and the empty-page counter
\* to 0 at once, in every state; and the first reconciliation after it
\* leaves no card in the grid but cards of the page just delivered.
C3_BrowseResets ==
    /\ [][browses' # browses
            => (current_page' = 1 /\ empty_pages_count' = 0)]_vars
    /\ [][(Delivered /\ (Head(signals).browse < browses
                          \/ Head(signals).handler = "_on_movies_loaded"))
            => Range(cards') \subseteq Range(Head(signals).movies)]_vars

\* C4: no fetch is started by the deferred viewport check once the
\* empty-page counter has reached MaxEmptyPages.
C4_NoAutoFetchAtCeiling ==
    [][(timers' = timers - 1 /\ ~is_loading /\ is_loading')
         => empty_pages_count < MaxEmptyPages]_vars

\* C5: with no user intent and a viewport that is never filled, the
\* controller comes to rest: no loader running, no signal queued, no
\* viewport check pending.
C5_AutoLoopTerminates ==
    <>(~is_loading /\ loaders = <<>> /\ signals = <<>> /\ timers = 0)

\* C6: reconciling a successfully fetched page with zero raw items
\* schedules no further viewport check (no autonomous request follows).
C6_EmptyPageStops ==
    [][(Delivered /\ Head(signals).signal = "movies_loaded"
          /\ Head(signals).outcome = "ok" /\ Head(signals).movies = <<>>)
         => timers' = timers]_vars

\* C7: when the fetch failed on every mirror, its completion puts the
\* controller in the failed state, adds no card and schedules no request.
C7_AllMirrorsFailedIsFailed ==
    [][(Delivered /\ Head(signals).outcome = "none")
         => /\ empty_state' = "Failed to load movies"
            /\ timers' = timers
            /\ Len(cards') <= Len(cards)]_vars

\* C8: a list_movies call in which every mirror failed reaches the caller
\* as a failure, never as a movies_loaded result with zero movies.
C8_FailureIsNotZeroResults ==
    \A i \in DOMAIN signals :
        signals[i].outcome = "none" => signals[i].signal = "error_occurred"

\* C9: whenever a reconciliation leaves the empty-page counter at the
\* ceiling, the "all movies filtered" state is shown, whatever the number
\* of cards.
C9_CeilingIsReported ==
    [][(Delivered /\ empty_pages_count' >= MaxEmptyPages)
         => empty_state' = "All movies filtered"]_vars

\* the answers _try_request takes as a success: a 2xx JSON object whose
\* status is "ok"
AnswersOk(r) == r \in {"ok", "no_data"}

\* C10: if mirror k is the first of the attempt order that answers
\* successfully, the call returns mirror k's body and mirror k is the
\* preferred mirror afterwards.
C10_FirstAnsweringMirrorWins ==
    last_call.result # "no call" =>
        LET order == MirrorsToTry(last_call.idx_before)
        IN  \A k \in DOMAIN order :
              (/\ AnswersOk(last_call.resp[order[k]])
               /\ \A j \in 1 .. (k - 1) : ~AnswersOk(last_call.resp[order[j]]))
              => /\ last_call.result = "data"
                 /\ last_call.mirror = order[k]
                 /\ last_call.body = last_call.resp[order[k]]
                 /\ current_mirror_idx = order[k]
                 /\ BASE_URL = MIRRORS[order[k] + 1]

\* the answers the specification counts as a failed mirror: a transport
\* error, a non-2xx status, a body that is not JSON, a JSON body whose
\* status is not "ok" (an object with another status, or no object at all)
FailingAnswers == {"transport", "http_error", "not_json", "status_error",
                   "not_object"}

\* C11: a _try_request call in which every mirror fails returns None and
\* does not raise.
C11_AllFailReturnsNone ==
    (/\ last_call.result # "no call"
     /\ \A m \in MirrorIdx : last_call.resp[m] \in FailingAnswers)
    => last_call.result = "none"

\* C12: the mirrors attempted in one call are the preferred mirror first,
\* then the other mirrors in ascending priority order with none skipped,
\* and no mirror is attempted twice.
C12_AttemptOrder ==
    last_call.result # "no call" =>
        LET a == last_call.attempts
        IN  /\ Len(a) >= 1
            /\ a[1] = last_call.idx_before
            /\ \A i, j \in DOMAIN a : i < j => a[i] # a[j]
            /\ \A i, j \in 2 .. Len(a) : i < j => a[i] < a[j]
            /\ \A k \in 2 .. Len(a) : \A m \in MirrorIdx :
                  (m # last_call.idx_before /\ m < a[k])
                  => \E j \in 2 .. (k - 1) : a[j] = m

\* a call on a preferred mirror that is not the first of the list went
\* through all four mirrors
C12_Witness ==
    /\ last_call.result = "none"
    /\ last_call.idx_before = 2
    /\ last_call.attempts = <<2, 0, 1, 3>>

\* C13: the call stops at the first mirror that answers with status "ok"
\* and returns its body; it returns None only after every mirror was
\* attempted and failed; it succeeds iff some mirror answers with status
\* "ok".
C13_StopsAtFirstSuccess ==
    last_call.result # "no call" =>
        LET a == last_call.attempts
        IN  /\ \A k \in 1 .. (Len(a) - 1) : ~AnswersOk(last_call.resp[a[k]])
            /\ last_call.result = "data" =>
                  (/\ last_call.mirror = a[Len(a)]
                   /\ AnswersOk(last_call.resp[last_call.mirror]))
            /\ last_call.result = "none" =>
                  (/\ Len(a) = Len(MIRRORS)
                   /\ \A m \in MirrorIdx : ~AnswersOk(last_call.resp[m]))
            /\ (last_call.result = "data"
                  <=> \E m \in MirrorIdx : AnswersOk(last_call.resp[m]))

\* C14: a mirror answering with status "ok" and no "data" is passed over
\* like a failed one: its body is not returned and it does not become the
\* preferred mirror.
C14_MalformedIsFailure ==
    last_call.result # "no call" =>
        \A m \in MirrorIdx :
            last_call.resp[m] = "no_data"
            => /\ ~(last_call.result = "data" /\ last_call.mirror = m)
               /\ (current_mirror_idx = m => last_call.idx_before = m)

\* the mirrors the probe accepts: HTTP 200, status "ok", "data" present
Accepted(probe) == {i \in MirrorIdx : probe[i] = "ok"}

\* C15: construction completes; the preferred mirror is the first mirror
\* the probe accepts and no mirror after it is probed; when none is
\* accepted the client says so, and a later call still attempts every
\* mirror.
C15_ProbePrefersFirstAccepted ==
    /\ [](last_call.result \in {"constructed", "construction raised"} =>
            LET acc == Accepted(last_call.probe)
                first == CHOOSE i \in acc : \A j \in acc : i <= j
            IN  /\ last_call.result = "constructed"
                /\ acc # {} => (/\ last_call.found
                                /\ current_mirror_idx = first
                                /\ BASE_URL = MIRRORS[first + 1]
                                /\ last_call.probed = first + 1)
                /\ acc = {} => (~last_call.found /\ last_call.warned))
    /\ [][(/\ last_call.result = "constructed"
            /\ ~last_call.found
            /\ last_call'.result = "none")
           => Len(last_call'.attempts) = Len(MIRRORS)]_vars

\* the last step was a set_movies call
GridCall == last_call.result = "set_movies"

\* the item of the last set_movies call, and the dict it was filtered with
GridItem == MovieOf(last_call.movies[1])
GridDict == last_call.filters

C17_WatchlistStage ==
    (GridCall /\ last_call.stage \notin {"hidden", "watched"}) =>
        LET in_watchlist == GridItem.imdb_code \in watchlist_codes
        IN  /\ GridDict.show_watchlist_only
                => (last_call.stage # "watchlist" <=> in_watchlist)
            /\ ~GridDict.show_watchlist_only
                => (last_call.stage = "watchlist"
                      <=> (GridDict.hide_watchlist /\ in_watchlist))
            /\ (/\ GridDict.show_watchlist_only
                /\ GridDict.hide_watchlist
                /\ in_watchlist
                /\ ~GridDict.hide_downloaded)
                => cards = last_call.movies

\* both boxes set, and a watchlist item is shown
C17_Witness ==
    /\ GridCall
    /\ GridDict.show_watchlist_only
    /\ GridDict.hide_watchlist
    /\ GridItem.imdb_code \in watchlist_codes
    /\ cards # <<>>

\* C18: for an item that reaches the ownership stage: it is rejected there
\* iff hide_downloaded is set and it is owned, where owned means its code is
\* in the downloaded set or the library holds its normalized title with its
\* year or with no year.
C18_OwnershipStage ==
    (GridCall /\ last_call.stage \notin {"hidden", "watched", "watchlist"}) =>
        LET owned == \/ GridItem.imdb_code \in downloaded_codes
                     \/ is_in_library(GridItem, library_lookup)
        IN  /\ last_call.stage = "owned"
                <=> (GridDict.hide_downloaded /\ owned)
            /\ (owned /\ ~GridDict.hide_downloaded)
                => last_call.stage # "owned"

\* an item that is owned by the library match alone is rejected
C18_Witness ==
    /\ GridCall
    /\ last_call.stage = "owned"
    /\ GridItem.imdb_code \notin downloaded_codes
    /\ library_lookup # {}

\* the quality flags a dict enables
EnabledQualities(f) ==
    {q \in {"2160p", "1080p", "720p"} :
        \/ q = "2160p" /\ f.quality_2160p
        \/ q = "1080p" /\ f.quality_1080p
        \/ q = "720p" /\ f.quality_720p}

\* C19: for an item that reaches the quality stage: it is rejected there
\* iff it has a variant, some quality flag is enabled and none of its
\* variants has an enabled quality.
C19_QualityStage ==
    (GridCall /\ last_call.stage \in {"quality", "seeds", "none"}) =>
        LET t == GridItem.torrents
            labels == {t[i].quality : i \in DOMAIN t}
        IN  last_call.stage = "quality"
              <=> (/\ t # <<>>
                   /\ EnabledQualities(GridDict) # {}
                   /\ labels \cap EnabledQualities(GridDict) = {})

\* an item with two variants is rejected because neither is enabled
C19_Witness ==
    /\ GridCall
    /\ last_call.stage = "quality"
    /\ Len(GridItem.torrents) = 2

\* C20: for an item that reaches the seeds stage: it passes iff min_seeds
\* is 0, or it has no variant, or some variant (of whatever quality) has at
\* least min_seeds seeds.  The item with variants 720p/5 and 1080p/50 is
\* shown under min_seeds 10 with 1080p enabled and 720p disabled.
C20_SeedsStage ==
    /\ (GridCall /\ last_call.stage \in {"seeds", "none"}) =>
          LET t == GridItem.torrents
          IN  last_call.stage = "none"
                <=> (\/ GridDict.min_seeds <= 0
                     \/ t = <<>>
                     \/ \E i \in DOMAIN t : t[i].seeds >= GridDict.min_seeds)
    /\ (/\ GridCall
        /\ GridItem.torrents = <<Torrent("720p", 5), Torrent("1080p", 50)>>
        /\ GridDict = GridConfig(FALSE, FALSE, FALSE, FALSE, TRUE, FALSE, 10))
        => cards = last_call.movies

\* the scenario of the specification, the item shown
C20_Witness ==
    /\ GridCall
    /\ GridItem.torrents = <<Torrent("720p", 5), Torrent("1080p", 50)>>
    /\ GridDict.min_seeds = 10
    /\ GridDict.quality_1080p
    /\ ~GridDict.quality_720p
    /\ cards # <<>>

\* the last step was a call of the library matcher
MatchCalled == last_call.result = "match"

\* C21: the matcher reports a match iff some library entry has the item's
\* normalized title and the years are equal or the year of either side is
\* unknown.
C21_MatchRule ==
    MatchCalled =>
        LET expected ==
              \E e \in library_lookup :
                  /\ e[1] = normalize_title(last_call.title)
                  /\ \/ e[2] = last_call.year
                     \/ e[2] = NoYear
                     \/ last_call.year = UnknownYear
        IN  /\ last_call.exists = expected
            /\ last_call.in_library = expected

\* C22: an item "Ab" with a known year against a library of one entry:
\* the entry with its title and year matches, the entry with its title and
\* no year matches, the entry with its title and another year does not, the
\* entry with another title and its year does not.
C22_SingleEntryCases ==
    (/\ MatchCalled
     /\ last_call.title = <<"A", "b">>
     /\ last_call.year # UnknownYear
     /\ Cardinality(library_lookup) = 1) =>
        LET e == CHOOSE x \in library_lookup : TRUE
            other == IF last_call.year = 2010 THEN 2011 ELSE 2010
        IN  /\ e = <<(<<"a", "b">>), last_call.year>> => last_call.exists
            /\ e = <<(<<"a", "b">>), NoYear>> => last_call.exists
            /\ e = <<(<<"a", "b">>), other>> => ~last_call.exists
            /\ e = <<(<<"b", "a">>), last_call.year>> => ~last_call.exists

\* the title is in the library under another year: no match
C22_Witness ==
    /\ MatchCalled
    /\ last_call.title = <<"A", "b">>
    /\ last_call.year = 2010
    /\ library_lookup = {<<(<<"a", "b">>), 2011>>}
    /\ ~last_call.exists

\* C23: when the first page of a browse has raw items and the pipeline
\* rejects them all, its reconciliation leaves no card, the counter at 1
\* and a viewport check pending; when that check runs, page 2 is requested.
C23_FirstPageAllRejected ==
    /\ [][(/\ Delivered
           /\ Head(signals).signal = "movies_loaded"
           /\ Head(signals).handler = "_on_movies_loaded"
           /\ Head(signals).movies # <<>>
           /\ \A code \in Range(Head(signals).movies) :
                 ~Passes(MovieOf(code), FilterDict(current_filters),
                         hidden_codes, watched_codes, watchlist_codes,
                         downloaded_codes, library_lookup))
          => /\ cards' = <<>>
             /\ empty_pages_count' = 1
             /\ timers' = timers + 1
             /\ ~is_loading']_vars
    /\ [][(/\ timers' = timers - 1
           /\ ~is_loading
           /\ cards = <<>>
           /\ empty_pages_count = 1
           /\ current_page = 1)
          => /\ is_loading'
             /\ current_page' = 2
             /\ Len(loaders') = Len(loaders) + 1
             /\ loaders'[Len(loaders')].page = 2]_vars

\* page 1 of the browse was all rejected and page 2 is being fetched
C23_Witness ==
    /\ current_filters = "narrow"
    /\ cards = <<>>
    /\ empty_pages_count = 1
    /\ Len(loaders) = 1
    /\ loaders[1].page = 2
    /\ loaders[1].handler = "_on_more_movies_loaded"
    /\ loaders[1].browse = browses

\* C24: a load_more signal received while a fetch is in flight changes
\* nothing: cursor, cards, counter, the running loader and the queued
\* signals stay as they are, and nothing is left behind to start a fetch
\* later.
C24_LoadMoreWhileLoadingIsNoOp ==
    [][(is_loading /\ hist'.dropped)
         => /\ UNCHANGED <<current_page, cards, empty_pages_count, loaders,
                           signals, is_loading, current_filters, empty_state,
                           capacity, browses>>
            /\ timers' <= timers
            /\ hist'.requested = hist.requested]_vars

\* a load_more signal was just dropped, the fetch still in flight
C24_Witness ==
    /\ hist.dropped
    /\ is_loading
    /\ Len(loaders) = 1

\* C25: get_magnet uses the hash of the first variant of the requested
\* quality, of the first variant when no variant has that quality, and
\* returns None iff the movie has no variant.
C25_GetMagnet ==
    last_call.result = "get_magnet" =>
        LET t == last_call.torrents
            hits == {i \in DOMAIN t : t[i].quality = last_call.quality}
        IN  /\ last_call.magnet = NoMagnet <=> t = <<>>
            /\ hits # {} =>
                 \E i \in hits : /\ \A j \in hits : i <= j
                                 /\ last_call.magnet.xt = t[i].hash
            /\ (hits = {} /\ t # <<>>) => last_call.magnet.xt = t[1].hash

\* two variants of the requested quality behind one of another quality:
\* the second variant of the list is taken
C25_Witness ==
    /\ last_call.result = "get_magnet"
    /\ Len(last_call.torrents) = 3
    /\ last_call.torrents[1].quality # last_call.quality
    /\ last_call.torrents[2].quality = last_call.quality
    /\ last_call.torrents[3].quality = last_call.quality
    /\ last_call.magnet.xt = 2

\* C26: the fetches of one browse request the pages 1, 2, 3, ... in this
\* order: a fetch is started for the page after the last one requested in
\* the current browse (page 1 when none was), with the server-side
\* parameters of the current filter dict.
C26_PagesInOrder ==
    [][Len(loaders') > Len(loaders) =>
         LET ld == loaders'[Len(loaders')]
             last == IF browses' # browses THEN 0 ELSE hist.requested
         IN  /\ \/ ld.page = last + 1
                \/ (last = MaxPage /\ ld.page = MaxPage)
             /\ ld.query = Get(FilterDict(current_filters'), "query", "")
             /\ ld.genre = Get(FilterDict(current_filters'), "genre", "")]_vars

\* C27: reconciling a page adds one to the empty-page counter iff the page
\* has a raw item and added no card, and sets the counter to 0 otherwise.
C27_CounterRule ==
    [][(Delivered /\ Head(signals).signal = "movies_loaded") =>
         LET movies == Head(signals).movies
             added == IF Head(signals).handler = "_on_movies_loaded"
                        THEN Len(cards') ELSE Len(cards') - Len(cards)
         IN  empty_pages_count' =
                 IF movies # <<>> /\ added = 0 THEN empty_pages_count + 1
                                                ELSE 0]_vars

\* two unproductive pages in a row were reconciled
C27_Witness ==
    /\ empty_pages_count = 2
    /\ ~is_loading
    /\ timers > 0

\* C28 as stated: a deferred check starts a fetch only if the viewport
\* needed more cards when the last page was reconciled (or the user has
\* asked for a fetch since).
C28_FetchOnlyIfNeededAtReconcile ==
    [][(timers' = timers - 1 /\ ~is_loading /\ is_loading')
         => hist.needed]_vars

\* C28 amended: reconciling a page with a raw item while the counter stays
\* below the ceiling starts no fetch and schedules one deferred viewport
\* check; a deferred check that runs while no fetch is in flight starts the
\* fetch of the next page iff the cards fit the viewport at that moment.
C28_DeferredCheckDecides ==
    /\ [][(/\ Delivered
           /\ Head(signals).signal = "movies_loaded"
           /\ Head(signals).movies # <<>>
           /\ empty_pages_count' < MaxEmptyPages)
          => /\ timers' = timers + 1
             /\ ~is_loading'
             /\ loaders' = loaders
             /\ current_page' = current_page]_vars
    /\ [][(timers' = timers - 1 /\ ~is_loading) =>
            IF Len(cards) <= capacity
            THEN /\ is_loading'
                 /\ current_page' = NextPage(current_page)
                 /\ Len(loaders') = Len(loaders) + 1
                 /\ loaders'[Len(loaders')].page = NextPage(current_page)
            ELSE UNCHANGED <<is_loading, current_page, loaders>>]_vars

\* the checks have run on a filled viewport: the controller is idle
C28_Witness ==
    /\ Len(cards) > capacity
    /\ ~hist.needed
    /\ ~is_loading
    /\ loaders = <<>>
    /\ signals = <<>>
    /\ timers = 0

\* the stage that rejects the item with this code under the current filters
\* and sets ("none": it passes)
VerdictNow(code) ==
    RejectedAt(MovieOf(code), FilterDict(current_filters), hidden_codes,
               watched_codes, watchlist_codes, downloaded_codes,
               library_lookup)

\* C29: reconciling a load-more page leaves the cards already visible in
\* place and in order, and appends after them exactly the items of the page
\* that pass the pipeline, in page order; no rejected item of the page
\* becomes visible.
C29_LoadMoreAppendsSurvivors ==
    [][(/\ Delivered
        /\ Head(signals).signal = "movies_loaded"
        /\ Head(signals).handler = "_on_more_movies_loaded")
       => LET movies == Head(signals).movies
              added == SubSeq(cards', Len(cards) + 1, Len(cards'))
          IN  /\ Len(cards') >= Len(cards)
              /\ SubSeq(cards', 1, Len(cards)) = cards
              /\ added = SelectSeq(movies,
                                   LAMBDA code : VerdictNow(code) = "none")
              /\ \A i \in 1..Len(movies) :
                     VerdictNow(movies[i]) # "none"
                         => \A j \in 1..Len(added) : added[j] # movies[i]]_vars

\* a load-more page was reconciled: one of its items was appended after the
\* card of page 1, the other one was rejected
C29_Witness ==
    /\ cards = <<1, 3>>
    /\ VerdictNow(4) # "none"
    /\ current_page = 2
    /\ ~is_loading
    /\ signals = <<>>

\* the pagination state of the window
PaginationState == <<current_page, cards, empty_pages_count, is_loading>>

\* C30: the loader thread never writes the pagination state (its run only
\* queues a signal), and every change of the pagination state is made by one
\* main-thread step: either a completion handler, which consumes exactly the
\* oldest queued signal and starts no thread, or the handler of an intent or
\* of a deferred check, which consumes no signal.
C30_PaginationSerialized ==
    /\ [][Len(loaders') < Len(loaders)
            => (/\ UNCHANGED PaginationState
                /\ Len(signals') = Len(signals) + 1)]_vars
    /\ [][PaginationState' # PaginationState
            => \/ Delivered /\ loaders' = loaders
               \/ /\ signals' = signals
                  /\ Len(loaders') >= Len(loaders)]_vars

\* a loader thread has finished and queued its signal; is_loading is still
\* set, for the handler to clear
C30_Witness ==
    /\ loaders = <<>>
    /\ signals # <<>>
    /\ is_loading
    /\ current_page = 2

----------------------------------------------------------------------------
(* The marks of a session: the user hides cards, marks them watched, puts   *)
(* them on the watchlist and downloads them while the short catalog is      *)
(* browsed, every mirror answering.                                         *)

\* the cards without the first card of the movie (the loop with its break)
RemoveCard(cs, code) ==
    IF \E i \in DOMAIN cs : cs[i] = code
    THEN LET k == CHOOSE i \in DOMAIN cs :
                      cs[i] = code /\ \A j \in DOMAIN cs : cs[j] = code => i <= j
         IN  SubSeq(cs, 1, k - 1) \o SubSeq(cs, k + 1, Len(cs))
    ELSE cs

\* db.hide_movie / unhide_movie and the like, then get_..._imdb_codes
Toggle(codes, code) ==
    IF code \in codes THEN codes \ {code} ELSE codes \cup {code}

\* MainWindow._on_movie_hidden, from the card of the movie
MovieHidden(code) ==
    /\ \E i \in DOMAIN cards : cards[i] = code
    /\ hidden_codes' = Toggle(hidden_codes, code)
    /\ cards' = RemoveCard(cards, code)
    /\ UNCHANGED <<downloaded_codes, watched_codes, watchlist_codes,
                   library_lookup>>
    /\ UNCHANGED <<current_page, is_loading, current_filters,
                   empty_pages_count, empty_state, loaders, signals, timers,
                   capacity, browses>>
    /\ UNCHANGED <<apiVars, last_call>>
    /\ Recorded(hist.requested, FALSE)

\* MainWindow._on_movie_watched, from the card of the movie
MovieWatched(code) ==
    /\ \E i \in DOMAIN cards : cards[i] = code
    /\ watched_codes' = Toggle(watched_codes, code)
    /\ cards' = RemoveCard(cards, code)
    /\ UNCHANGED <<downloaded_codes, hidden_codes, watchlist_codes,
                   library_lookup>>
    /\ UNCHANGED <<current_page, is_loading, current_filters,
                   empty_pages_count, empty_state, loaders, signals, timers,
                   capacity, browses>>
    /\ UNCHANGED <<apiVars, last_call>>
    /\ Recorded(hist.requested, FALSE)

\* MainWindow._on_movie_watchlist, from the card of the movie
MovieWatchlist(code) ==
    /\ \E i \in DOMAIN cards : cards[i] = code
    /\ watchlist_codes' = Toggle(watchlist_codes, code)
    /\ cards' = RemoveCard(cards, code)
    /\ UNCHANGED <<downloaded_codes, hidden_codes, watched_codes,
                   library_lookup>>
    /\ UNCHANGED <<current_page, is_loading, current_filters,
                   empty_pages_count, empty_state, loaders, signals, timers,
                   capacity, browses>>
    /\ UNCHANGED <<apiVars, last_call>>
    /\ Recorded(hist.requested, FALSE)

\* what the torrent client does during one download request: whether it
\* answers when is_connected asks (in the handler, in add_torrent), whether
\* a connect succeeds (in the handler, in add_torrent), and whether
\* client.torrents_add returns (TRUE) or raises (FALSE)
ClientRuns ==
    [up1 : BOOLEAN, conn1 : BOOLEAN, up2 : BOOLEAN, conn2 : BOOLEAN,
     added : BOOLEAN]

\* an add_torrent that reports success whatever torrents_add did
add_torrent_always_true(run) ==
    IF ~run.up2 /\ ~run.conn2 THEN FALSE ELSE TRUE

\* QBittorrentClient.add_torrent: False when not connected and connect
\* fails, else True iff torrents_add did not raise
add_torrent(run) ==
    IF ~run.up2 /\ ~run.conn2 THEN FALSE ELSE run.added

\* the movie as get_magnet reads it: the hash of a variant is its position
WithHashes(movie) ==
    [title |-> movie.title,
     torrents |-> [i \in DOMAIN movie.torrents |->
                     [quality |-> movie.torrents[i].quality, hash |-> i]]]

\* the qualities the slot is called with: MovieDialog has one button per
\* variant; for a movie without variants (no button) the slot is exercised
\* with get_magnet's default quality, to cover its "no magnet" branch
DialogQualities(movie) ==
    IF movie.torrents = <<>> THEN {"1080p"}
    ELSE {movie.torrents[i].quality : i \in DOMAIN movie.torrents}

\* MainWindow._on_download_requested, from the dialog of a card;
\* last_call records the request and what the client did
DownloadRequested(code, quality, run) ==
    /\ \E i \in DOMAIN cards : cards[i] = code
    /\ LET magnet == get_magnet(WithHashes(MovieOf(code)), quality)
       IN  /\ last_call' = [result |-> "download", code |-> code,
                            quality |-> quality, run |-> run,
                            magnet |-> magnet]
           /\ downloaded_codes' =
                 IF ~run.up1 /\ ~run.conn1 THEN downloaded_codes
                 ELSE IF magnet = NoMagnet THEN downloaded_codes
                 ELSE IF add_torrent(run) THEN downloaded_codes \cup {code}
                 ELSE downloaded_codes
    /\ UNCHANGED <<hidden_codes, watched_codes, watchlist_codes,
                   library_lookup>>
    /\ UNCHANGED <<winVars, apiVars>>
    /\ Recorded(hist.requested, FALSE)

NextMarks ==
    \/ FiltersChanged("bar")
    \/ TimerFires
    \/ \E i \in DOMAIN loaders : LoaderRun(i, AllMirrorsOk)
    \/ OnMoviesLoaded
    \/ OnMoreMoviesLoaded
    \/ \E code \in 1 .. 4 : MovieHidden(code)
    \/ \E code \in 1 .. 4 : MovieWatched(code)
    \/ \E code \in 1 .. 4 : MovieWatchlist(code)

SpecMarks == Init /\ [][NextMarks]_vars

\* downloads from the cards of one browse of the short catalog
NextDownload ==
    \/ TimerFires
    \/ \E i \in DOMAIN loaders : LoaderRun(i, AllMirrorsOk)
    \/ OnMoviesLoaded
    \/ OnMoreMoviesLoaded
    \/ \E code \in 1 .. 4 : \E quality \in DialogQualities(MovieOf(code)) :
          \E run \in ClientRuns : DownloadRequested(code, quality, run)

\* the window after a construction whose probes all answered
InitDownload ==
    /\ Init
    /\ capacity = LargeCapacity
    /\ current_mirror_idx = ApiInit(AllMirrorsOk).idx

SpecDownload == InitDownload /\ [][NextDownload]_vars

----------------------------------------------------------------------------

\* C31: a step that changes one of the membership sets (hidden, watched,
\* watchlist, downloaded) leaves the cards already visible as they are.
C31_MarksNotRetroactive ==
    [][<<hidden_codes, watched_codes, watchlist_codes, downloaded_codes>>' #
         <<hidden_codes, watched_codes, watchlist_codes, downloaded_codes>>
       => cards' = cards]_vars

\* the last step was a download request
DownloadCalled == last_call.result = "download"

\* C37: the downloaded set changes only in a download request whose client
\* was connected (or could be), whose movie gave a magnet and whose
\* submission went through, and then only by the movie requested; with no
\* connection, no magnet or a failed submission the set is unchanged.
C37_OwnedOnlyAfterSubmission ==
    [][LET c == last_call'
           submitted == /\ c.run.up1 \/ c.run.conn1
                        /\ MovieOf(c.code).torrents # <<>>
                        /\ c.run.up2 \/ c.run.conn2
                        /\ c.run.added
       IN  /\ downloaded_codes' # downloaded_codes
                => /\ c.result = "download"
                   /\ submitted
                   /\ downloaded_codes' = downloaded_codes \cup {c.code}
           /\ (c.result = "download" /\ ~submitted)
                => downloaded_codes' = downloaded_codes]_vars

\* movie 1 was submitted and recorded, and the last request, for the movie
\* without variants, left the set as it was
C37_Witness ==
    /\ DownloadCalled
    /\ last_call.code = 3
    /\ last_call.magnet = NoMagnet
    /\ downloaded_codes = {1, 2}

----------------------------------------------------------------------------
(* The runtime stage: set_movies on pages of one movie under every pair of  *)
(* values of the two runtime spin boxes, the other filters letting every    *)
(* item through to the stage.                                               *)

\* values of the spin boxes (both range over 0..500, independently): the
\* ends of the range and values between the runtimes of the catalog
RuntimeValues == {0, 95, 105, 500}

RuntimeFilters ==
    {[GridConfig(FALSE, FALSE, FALSE, TRUE, TRUE, TRUE, 0) EXCEPT
         !.min_runtime = lo, !.max_runtime = hi] :
        lo \in RuntimeValues, hi \in RuntimeValues}

NextRuntime == \E code \in GridCodes : \E f \in RuntimeFilters :
                   SetMovies(<<code>>, f)

SpecRuntime == InitGrid /\ [][NextRuntime]_vars

\* C32: an item with runtime 0 is never rejected by the runtime stage; an
\* item with a known runtime is rejected by it iff the runtime is below
\* min_runtime or above max_runtime, and a rejected item gets no card.
C32_RuntimeStage ==
    GridCall =>
        LET m == GridItem
            f == GridDict
            outside == m.runtime < f.min_runtime \/ m.runtime > f.max_runtime
        IN  /\ m.runtime = 0 => last_call.stage # "runtime"
            /\ m.runtime # 0 => (last_call.stage = "runtime" <=> outside)
            /\ last_call.stage = "runtime" => cards = <<>>

\* an item of unknown runtime got its card under a minimum no unknown
\* runtime meets
C32_Witness ==
    /\ GridCall
    /\ GridItem.runtime = 0
    /\ GridDict.min_runtime > 0
    /\ cards = <<GridItem.imdb_code>>

\* C33: current_mirror_idx is an index of MIRRORS and BASE_URL is the
\* mirror at that index, after construction and after every request.
C33_PreferredMirrorConsistent ==
    /\ current_mirror_idx \in MirrorIdx
    /\ BASE_URL = MIRRORS[current_mirror_idx + 1]

\* no mirror was accepted at construction, and a later request moved the
\* preferred mirror away from the first one
C33_Witness ==
    /\ last_call.result = "data"
    /\ last_call.idx_before = 0
    /\ current_mirror_idx = 1
    /\ BASE_URL = MIRRORS[2]

\* C34: a call in which no mirror answers with status "ok" leaves
\* current_mirror_idx and BASE_URL as they were; they change only to the
\* mirror whose answer the call returned, and no mirror that failed before
\* it in the attempt order becomes the preferred one.
C34_SwitchOnlyOnSuccess ==
    last_call.result # "no call" =>
        LET changed == \/ current_mirror_idx # last_call.idx_before
                       \/ BASE_URL # last_call.base_before
        IN  /\ (\A m \in MirrorIdx : ~AnswersOk(last_call.resp[m])) => ~changed
            /\ last_call.result # "data" => ~changed
            /\ changed => /\ AnswersOk(last_call.resp[current_mirror_idx])
                          /\ current_mirror_idx = last_call.mirror
                          /\ BASE_URL = MIRRORS[last_call.mirror + 1]
            /\ \A k \in 1 .. (Len(last_call.attempts) - 1) :
                   last_call.attempts[k] # last_call.idx_before
                       => current_mirror_idx # last_call.attempts[k]

\* the preferred mirror and another one failed, a later one answered and
\* is preferred now
C34_Witness ==
    /\ last_call.result = "data"
    /\ Len(last_call.attempts) >= 3
    /\ current_mirror_idx = last_call.attempts[Len(last_call.attempts)]
    /\ current_mirror_idx # last_call.idx_before

----------------------------------------------------------------------------
(* Browsing with a scheduler: the user acts when they like, a started       *)
(* loader thread runs to its end (every request of list_movies has a        *)
(* timeout), the event loop delivers every queued signal and fires every    *)
(* pending single-shot timer.                                               *)

\* every mirror answers well, or every mirror answers with a body that
\* makes list_movies raise
LiveResponses == {AllMirrorsOk, [i \in MirrorIdx |-> "not_object"]}

Completion ==
    \/ \E i \in DOMAIN loaders : \E resp \in LiveResponses : LoaderRun(i, resp)
    \/ OnMoviesLoaded
    \/ OnMoreMoviesLoaded
    \/ OnLoadError

NextLive ==
    \/ FiltersChanged("bar")
    \/ Scroll
    \/ TimerFires
    \/ Completion

\* a small window (the grid gets a scrollbar with its second card) after a
\* construction whose probes all answered
InitLive ==
    /\ Init
    /\ capacity = SmallCapacity
    /\ current_mirror_idx = ApiInit(AllMirrorsOk).idx

SpecLive ==
    InitLive /\ [][NextLive]_vars /\ WF_vars(Completion) /\ WF_vars(TimerFires)

\* C35: a run of the loader thread queues exactly one signal, the handler
\* of a signal clears is_loading, and is_loading never stays true for
\* ever: whenever it is set it is cleared later, so that the guard of
\* _load_movies and _load_more_movies lets a later intent through.
C35_LoadingEnds ==
    /\ [][Len(loaders') < Len(loaders)
            => (/\ Len(loaders') = Len(loaders) - 1
                /\ signals' = Append(signals, signals'[Len(signals')])
                /\ signals'[Len(signals')].signal
                       \in {"movies_loaded", "error_occurred"})]_vars
    /\ [][Delivered => ~is_loading']_vars
    /\ (is_loading ~> ~is_loading)

\* the first fetch has ended and a load-more intent was accepted after it
C35_Witness ==
    /\ is_loading
    /\ hist.requested = 2
    /\ browses = 0
    /\ Len(loaders) = 1

\* C36: no two cards of the grid show the same movie.
C36_NoDuplicateCards ==
    \A i, j \in DOMAIN cards : i # j => cards[i] # cards[j]

\* C38: on the same title, year and lookup set, movie_exists_in_library and
\* MovieGrid._is_in_library give the same answer.
C38_MatchersAgree ==
    MatchCalled => (last_call.exists <=> last_call.in_library)

\* both matchers found the item through the loop: the library has its
\* title without a year only
C38_Witness ==
    /\ MatchCalled
    /\ last_call.year = 2011
    /\ library_lookup = {<<normalize_title(last_call.title), NoYear>>}
    /\ last_call.exists
    /\ last_call.in_library

====
